---- MODULE Spec2Model ----
(***************************************************************************)
(* Model of the application state container of bya-react                   *)
(* (src/src/context/AppContext.jsx): the reducer, the two mount effects,   *)
(* generateApp, updateAppWithFollowUp and saveCurrentApp, together with    *)
(* the localStorage record 'bya-saved-apps' and the external AI service.   *)
(*                                                                         *)
(* JavaScript runs each handler and each continuation after an await to    *)
(* completion, so one action is one handler entry or one continuation.     *)
(* Strings are TLA+ strings; Date.now() is the model clock `now` in        *)
(* milliseconds; `undefined` and `null` are the values Undefined and Null. *)
(***************************************************************************)
EXTENDS Integers, Sequences, FiniteSets, TLC

(* ---------------------------- bounds ---------------------------------- *)
MaxApps == 2      \* longest savedApps list explored
MaxCalls == 2     \* generateApp / updateAppWithFollowUp invocations explored

(* ---------------------------- values ---------------------------------- *)
Undefined == "<undefined>"
Null == [null |-> TRUE]

Fields == {"id", "name", "description", "type", "createdAt", "prompt", "code"}

\* obj.f : reading a property the object does not carry gives undefined
Get(obj, f) == IF f \in DOMAIN obj THEN obj[f] ELSE Undefined

\* Date.now().toString()
DateNowString(t) == ToString(t)

\* new Date().toISOString()
ToISOString(t) == "1970-01-01T00:00:00.00" \o ToString(t) \o "Z"

(* ---------------------------- inputs ---------------------------------- *)
Prompts == {"Build a todo list app"}
FollowUpPrompts == {"Add a dark mode toggle"}
ContentTexts == {"<!DOCTYPE html>A</html>", "<!DOCTYPE html>B</html>"}
MetaTodo == "{\"name\":\"Todo\",\"description\":\"A todo app\",\"type\":\"todo\"}"
MetaTexts == {MetaTodo, "Sure! Here is the JSON you asked for", "null", "{}"}
NoText == "<no response>"
ServiceErrors == {"Connection error."}
GhostId == "999"
UpdatePayloads == {[name |-> "Renamed"]}

\* an artifact written by an earlier session
OldApp ==
  [id |-> DateNowString(0), name |-> "Todo", description |-> "A todo app",
   type |-> "todo", createdAt |-> ToISOString(0),
   prompt |-> "Build a todo list app", code |-> "<!DOCTYPE html>A</html>"]

(* ------------------------- JSON conversions --------------------------- *)
\* JSON.stringify of one object: properties whose value is undefined are dropped
StringifyObject(obj) ==
  [f \in {g \in DOMAIN obj : obj[g] # Undefined} |-> obj[f]]

\* JSON.stringify(list): the text kept under the storage key
JSONstringify(list) ==
  [present |-> TRUE, items |-> [i \in 1..Len(list) |-> StringifyObject(list[i])]]

\* localStorage.getItem of a key that was never written
NoItem == [present |-> FALSE, items |-> <<>>]

\* text under the storage key that JSON.parse cannot read
Garbled == [present |-> TRUE, text |-> "<!DOCTYPE html>"]

\* JSON.parse of the stored text returns instead of throwing a SyntaxError
Readable(item) == ~item.present \/ "items" \in DOMAIN item

\* JSON.parse(localStorage.getItem('bya-saved-apps')) || [], for readable text
ParseSavedApps(item) == IF item.present THEN item.items ELSE <<>>

\* JSON.parse(metadataCompletion.output_text)
JSONparse(text) ==
  CASE text = MetaTodo ->
         [kind |-> "object",
          obj |-> [name |-> "Todo", description |-> "A todo app", type |-> "todo"]]
    [] text = "{}" -> [kind |-> "object", obj |-> [x \in {} |-> ""]]
    [] text = "null" -> [kind |-> "null", obj |-> Null]
    [] OTHER -> [kind |-> "SyntaxError", obj |-> Null]

\* lines 216-226: the fallback of the inner catch
FallbackMetadata ==
  [name |-> "Custom App", description |-> "AI-generated application", type |-> "other"]

\* variant: no inner try/catch, the SyntaxError reaches the outer catch
ParseMetadata_NoFallback(text) == JSONparse(text)

\* lines 216-226: parse, with the fallback when parsing throws
ParseMetadata(text) ==
  LET r == JSONparse(text)
  IN IF r.kind = "SyntaxError" THEN [kind |-> "object", obj |-> FallbackMetadata]
     ELSE r

(* ----------------------------- state ---------------------------------- *)
VARIABLES
  savedApps,      \* state.savedApps
  currentApp,     \* state.currentApp
  isGenerating,   \* state.isGenerating
  generatedApps,  \* state.generatedApps (Map id -> content)
  aiClient,       \* state.aiClient (TRUE: a client object, FALSE: null)
  localStorage,   \* the item under 'bya-saved-apps'
  apiKey,         \* import.meta.env.VITE_OPENAI_API_KEY is set
  boot,           \* position of the mount effects
  now,            \* the clock read by Date.now()
  calls,          \* the generateApp / updateAppWithFollowUp invocations pending
  settled,        \* what the step just taken delivered to an awaiting caller
  ui              \* the route and the local state of the page components

vars == <<savedApps, currentApp, isGenerating, generatedApps, aiClient,
          localStorage, apiKey, boot, now, calls, settled, ui>>

\* the variables of the context provider that a step of a page alone leaves
core == <<savedApps, currentApp, isGenerating, generatedApps, aiClient,
          localStorage, apiKey, boot, now, calls>>

\* App.jsx routes; HomePage.showLoadingModal, AppPreview.showFollowUpModal;
\* cancelled: the loading modal of the latest handleCreateApp was dismissed,
\* or its page left, before the call settled
HomeRoute ==
  [page |-> "home", appId |-> "", showLoadingModal |-> FALSE,
   showFollowUpModal |-> FALSE, cancelled |-> FALSE]

CallIds == 1..MaxCalls

\* an invocation that has not been made yet
NoCall ==
  [op |-> "none", pc |-> "idle", prompt |-> "", appId |-> "",
   currentCode |-> "", generatedCode |-> "", fresh |-> FALSE, sent |-> 0]

\* an invocation that is over: settled, or lost with the page
Done == [NoCall EXCEPT !.pc = "done"]

InFlight(c) == calls[c].pc \in {"content", "metadata"}

\* the step just taken settled no invocation
NoResult ==
  [op |-> "none", outcome |-> "none", appId |-> "", text |-> NoText,
   meta |-> NoText, sent |-> 0, ret |-> Null, err |-> ""]

\* the promise of an invocation resolves with ret; text and meta are the
\* output_text of the content and metadata answers it received
Resolved(call, text, meta, ret) ==
  [op |-> call.op, outcome |-> "resolved", appId |-> call.appId, text |-> text,
   meta |-> meta, sent |-> call.sent, ret |-> ret, err |-> ""]

\* the promise of an invocation rejects with new Error(err)
Rejected(call, meta, err) ==
  [op |-> call.op, outcome |-> "rejected", appId |-> call.appId, text |-> NoText,
   meta |-> meta, sent |-> call.sent, ret |-> Null, err |-> err]

\* the step just taken threw an error that nothing catches
Uncaught(name) == [NoResult EXCEPT !.outcome = "uncaught", !.err = name]

\* Map.get
MapGet(map, k) == IF k \in DOMAIN map THEN map[k] ELSE Undefined

\* Map.set on a copy
MapSet(map, k, v) == [x \in DOMAIN map \cup {k} |-> IF x = k THEN v ELSE map[x]]

EmptyMap == [x \in {} |-> ""]

(* ---------------------------- reducer --------------------------------- *)
\* case SET_SAVED_APPS
SET_SAVED_APPS(payload) == savedApps' = payload

\* case ADD_APP
ADD_APP(payload) ==
  /\ savedApps' = Append(savedApps, payload)
  /\ localStorage' = JSONstringify(savedApps')

\* case SET_CURRENT_APP
SET_CURRENT_APP(payload) == currentApp' = payload

\* case SET_GENERATING
SET_GENERATING(payload) == isGenerating' = payload

\* variant: the entry is set on a new Map, not on a copy of the old one
SET_GENERATED_APP_NewMap(id, content) == generatedApps' = MapSet(EmptyMap, id, content)

\* case SET_GENERATED_APP
SET_GENERATED_APP(id, content) == generatedApps' = MapSet(generatedApps, id, content)

\* { ...app, ...updates }
Merge(app, updates) ==
  [f \in DOMAIN app \cup DOMAIN updates |->
     IF f \in DOMAIN updates THEN updates[f] ELSE app[f]]

\* variant: the list is updated in memory only
UPDATE_APP_NoPersist(id, updates) ==
  /\ savedApps' = [i \in 1..Len(savedApps) |->
                     IF Get(savedApps[i], "id") = id
                     THEN Merge(savedApps[i], updates) ELSE savedApps[i]]
  /\ UNCHANGED localStorage

\* case UPDATE_APP
UPDATE_APP(id, updates) ==
  /\ savedApps' = [i \in 1..Len(savedApps) |->
                     IF Get(savedApps[i], "id") = id
                     THEN Merge(savedApps[i], updates) ELSE savedApps[i]]
  /\ localStorage' = JSONstringify(savedApps')

\* Array.prototype.filter(app => app.id !== id)
FilterOut(list, id) == SelectSeq(list, LAMBDA app : Get(app, "id") # id)

\* case DELETE_APP
DELETE_APP(id) ==
  /\ savedApps' = FilterOut(savedApps, id)
  /\ localStorage' = JSONstringify(savedApps')

\* case INIT_AI_CLIENT
INIT_AI_CLIENT(payload) == aiClient' = payload

(* -------------------------- uncaught errors --------------------------- *)
\* an error thrown by an effect or by the reducer is caught by no error
\* boundary: React unmounts the whole tree, the provider's state is discarded
\* and pending calls have nothing left to update
TreeUnmounted(name) ==
  /\ savedApps' = <<>>
  /\ currentApp' = Null
  /\ isGenerating' = FALSE
  /\ generatedApps' = EmptyMap
  /\ aiClient' = FALSE
  /\ calls' = [c \in CallIds |-> IF InFlight(c) THEN Done ELSE calls[c]]
  /\ boot' = "crashed"
  /\ settled' = Uncaught(name)
  /\ UNCHANGED <<localStorage, apiKey>>

\* localStorage.setItem throws when the quota is exhausted
SetItemErrors == {"QuotaExceededError"}

(* ------------------------- initial state ------------------------------ *)
StoredLists == {NoItem, JSONstringify(<<>>), JSONstringify(<<OldApp>>), Garbled}

Init ==
  /\ savedApps = <<>>
  /\ currentApp = Null
  /\ isGenerating = FALSE
  /\ generatedApps = EmptyMap
  /\ aiClient = FALSE
  /\ localStorage \in StoredLists
  /\ apiKey \in BOOLEAN
  /\ boot = "mount"
  /\ now = 1
  /\ calls = [c \in CallIds |-> NoCall]
  /\ settled = NoResult
  /\ ui = HomeRoute

(* --------------------------- mount effects ---------------------------- *)
\* useEffect: load saved apps from localStorage on mount
LoadSavedApps ==
  /\ boot = "mount"
  /\ IF Readable(localStorage)
     THEN /\ SET_SAVED_APPS(ParseSavedApps(localStorage))
          /\ boot' = "ai"
          /\ UNCHANGED <<currentApp, isGenerating, generatedApps, aiClient,
                         localStorage, apiKey, calls>>
          /\ settled' = NoResult
     ELSE TreeUnmounted("SyntaxError")
  /\ UNCHANGED now

\* useEffect: initialize the AI client from the environment variable
InitAIClient ==
  /\ boot = "ai"
  /\ IF apiKey THEN INIT_AI_CLIENT(TRUE) ELSE UNCHANGED aiClient
  /\ boot' = "ready"
  /\ UNCHANGED <<savedApps, currentApp, isGenerating, generatedApps,
                 localStorage, apiKey, now, calls>>
  /\ settled' = NoResult

(* ------------------------------ clock --------------------------------- *)
\* the instants at which the answer to a pending request can arrive: not
\* before the present, and later than the instant the request left (fresh: the
\* request left at the present instant)
ArrivalTimes(fresh) == {t \in now..(now + 1) : fresh => t > now}

\* the pending requests as seen once the clock shows t
Aged(cs, t) == [d \in DOMAIN cs |-> [cs[d] EXCEPT !.fresh = @ /\ t = now]]

\* invocations are numbered in the order they are made
FreeSlot(c) == /\ calls[c].pc = "idle"
               /\ \A d \in CallIds : d < c => calls[d].pc # "idle"

\* ids a caller can name: those on screen, those cached, and one nobody has
KnownIds == {Get(savedApps[i], "id") : i \in 1..Len(savedApps)}
              \cup DOMAIN generatedApps \cup {GhostId}

(* ---------------------------- generateApp ----------------------------- *)
\* variant: the flag is raised before the client check
GenerateApp_FlagFirst(c, prompt) ==
  /\ boot = "ready"
  /\ FreeSlot(c)
  /\ SET_GENERATING(TRUE)
  /\ IF ~aiClient
     THEN /\ settled' = Rejected([NoCall EXCEPT !.op = "generateApp"], NoText,
                 "AI client not initialized. Please check your API key.")
          /\ calls' = [calls EXCEPT ![c] = Done]
     ELSE /\ calls' = [calls EXCEPT ![c] =
                 [NoCall EXCEPT !.op = "generateApp", !.pc = "content",
                    !.prompt = prompt, !.fresh = TRUE, !.sent = 1]]
          /\ settled' = NoResult
  /\ UNCHANGED <<savedApps, currentApp, generatedApps, aiClient,
                 localStorage, apiKey, boot, now>>

\* variant: the metadata request leaves together with the content request
GenerateApp_Parallel(c, prompt) ==
  /\ boot = "ready"
  /\ FreeSlot(c)
  /\ IF ~aiClient
     THEN /\ settled' = Rejected([NoCall EXCEPT !.op = "generateApp"], NoText,
                 "AI client not initialized. Please check your API key.")
          /\ calls' = [calls EXCEPT ![c] = Done]
          /\ UNCHANGED isGenerating
     ELSE /\ SET_GENERATING(TRUE)
          /\ calls' = [calls EXCEPT ![c] =
                 [NoCall EXCEPT !.op = "generateApp", !.pc = "content",
                    !.prompt = prompt, !.fresh = TRUE, !.sent = 2]]
          /\ settled' = NoResult
  /\ UNCHANGED <<savedApps, currentApp, generatedApps, aiClient,
                 localStorage, apiKey, boot, now>>

\* lines 103-111: client check, SET_GENERATING true, content request issued
GenerateApp(c, prompt) ==
  /\ boot = "ready"
  /\ FreeSlot(c)
  /\ IF ~aiClient
     THEN /\ settled' = Rejected([NoCall EXCEPT !.op = "generateApp"], NoText,
                 "AI client not initialized. Please check your API key.")
          /\ calls' = [calls EXCEPT ![c] = Done]
          /\ UNCHANGED isGenerating
     ELSE /\ SET_GENERATING(TRUE)
          /\ calls' = [calls EXCEPT ![c] =
                 [NoCall EXCEPT !.op = "generateApp", !.pc = "content",
                    !.prompt = prompt, !.fresh = TRUE, !.sent = 1]]
          /\ settled' = NoResult
  /\ UNCHANGED <<savedApps, currentApp, generatedApps, aiClient,
                 localStorage, apiKey, boot, now>>

\* lines 176-214: the content call resolved; the metadata request is issued
GenerateContentResponse(c, t, text) ==
  /\ calls[c].op = "generateApp" /\ calls[c].pc = "content"
  /\ t \in ArrivalTimes(calls[c].fresh)
  /\ now' = t
  /\ calls' = [Aged(calls, t) EXCEPT ![c].pc = "metadata",
                                      ![c].generatedCode = text,
                                      ![c].fresh = TRUE, ![c].sent = 2]
  /\ UNCHANGED <<savedApps, currentApp, isGenerating, generatedApps, aiClient,
                 localStorage, apiKey, boot>>
  /\ settled' = NoResult

\* variant: no finally block, the flag is left as it was
GenerateAppCatch_NoFinally(c, meta, message) ==
  /\ settled' = Rejected(calls[c], meta, "Failed to generate app: " \o message)
  /\ calls' = [Aged(calls, now') EXCEPT ![c] = Done]
  /\ UNCHANGED <<savedApps, currentApp, isGenerating, generatedApps, aiClient,
                 localStorage, apiKey, boot>>

\* lines 245-250: catch and finally of generateApp
GenerateAppCatch(c, meta, message) ==
  /\ settled' = Rejected(calls[c], meta, "Failed to generate app: " \o message)
  /\ calls' = [Aged(calls, now') EXCEPT ![c] = Done]
  /\ SET_GENERATING(FALSE)
  /\ UNCHANGED <<savedApps, currentApp, generatedApps, aiClient,
                 localStorage, apiKey, boot>>

\* either external call of generateApp rejects
GenerateAppFailure(c, t, message) ==
  /\ calls[c].op = "generateApp" /\ InFlight(c)
  /\ t \in ArrivalTimes(calls[c].fresh)
  /\ now' = t
  /\ GenerateAppCatch(c, NoText, message)

\* the message of what line 218 or line 231 throws
ErrorMessage(kind) ==
  IF kind = "null" THEN "Cannot read properties of null (reading 'name')"
  ELSE "Unexpected token S in JSON at position 0"

\* variant: the artifact does not record the prompt it was made from
AppData_NoPrompt(meta, appId, t, prompt, generatedCode) ==
  [id |-> appId, name |-> Get(meta, "name"),
   description |-> Get(meta, "description"), type |-> Get(meta, "type"),
   createdAt |-> ToISOString(t), prompt |-> "", code |-> generatedCode]

\* lines 229-237
AppData(meta, appId, t, prompt, generatedCode) ==
  [id |-> appId, name |-> Get(meta, "name"),
   description |-> Get(meta, "description"), type |-> Get(meta, "type"),
   createdAt |-> ToISOString(t), prompt |-> prompt, code |-> generatedCode]

\* lines 216-250: the metadata call resolved; the artifact is assembled,
\* cached, made current and saved, and the call returns
GenerateMetadataResponse(c, t, text) ==
  /\ calls[c].op = "generateApp" /\ calls[c].pc = "metadata"
  /\ t \in ArrivalTimes(calls[c].fresh)
  /\ now' = t
  /\ LET metadata == ParseMetadata(text)
         appData == AppData(metadata.obj, DateNowString(t), t,
                            calls[c].prompt, calls[c].generatedCode)
     IN IF metadata.kind # "object"
        THEN GenerateAppCatch(c, text, ErrorMessage(metadata.kind))
        ELSE /\ Len(savedApps) < MaxApps
             /\ \/ /\ SET_GENERATED_APP(appData.id, calls[c].generatedCode)
                   /\ SET_CURRENT_APP(appData)
                   /\ ADD_APP(appData)
                   /\ SET_GENERATING(FALSE)
                   /\ settled' = Resolved(calls[c], calls[c].generatedCode, text, appData)
                   /\ calls' = [Aged(calls, now') EXCEPT ![c] = Done]
                   /\ UNCHANGED <<aiClient, apiKey, boot>>
                \/ \E e \in SetItemErrors : TreeUnmounted(e)

(* ----------------------- updateAppWithFollowUp ------------------------ *)
\* lines 256-289: client check, SET_GENERATING true, the cached code is read
\* and the content request is issued
UpdateAppWithFollowUp(c, appId, followUpPrompt) ==
  /\ boot = "ready"
  /\ FreeSlot(c)
  /\ IF ~aiClient
     THEN /\ settled' = Rejected([NoCall EXCEPT !.op = "updateAppWithFollowUp",
                                                !.appId = appId],
                                  NoText, "AI client not initialized.")
          /\ calls' = [calls EXCEPT ![c] = Done]
          /\ UNCHANGED isGenerating
     ELSE /\ SET_GENERATING(TRUE)
          /\ calls' = [calls EXCEPT ![c] =
                 [NoCall EXCEPT !.op = "updateAppWithFollowUp", !.pc = "content",
                    !.appId = appId, !.prompt = followUpPrompt,
                    !.currentCode = MapGet(generatedApps, appId),
                    !.fresh = TRUE, !.sent = 1]]
          /\ settled' = NoResult
  /\ UNCHANGED <<savedApps, currentApp, generatedApps, aiClient,
                 localStorage, apiKey, boot, now>>

\* variant: the revised artifact is also relabelled in the saved list
FollowUpResponse_Renames(c, t, text) ==
  /\ calls[c].op = "updateAppWithFollowUp" /\ calls[c].pc = "content"
  /\ t \in ArrivalTimes(calls[c].fresh)
  /\ now' = t
  /\ SET_GENERATED_APP(calls[c].appId, text)
  /\ UPDATE_APP(calls[c].appId, [name |-> "Updated App"])
  /\ SET_GENERATING(FALSE)
  /\ settled' = Resolved(calls[c], text, NoText, [value |-> TRUE])
  /\ calls' = [Aged(calls, now') EXCEPT ![c] = Done]
  /\ UNCHANGED <<currentApp, aiClient, apiKey, boot>>

\* lines 291-294 and 298-300: the call resolved; the cache entry is replaced
FollowUpResponse(c, t, text) ==
  /\ calls[c].op = "updateAppWithFollowUp" /\ calls[c].pc = "content"
  /\ t \in ArrivalTimes(calls[c].fresh)
  /\ now' = t
  /\ SET_GENERATED_APP(calls[c].appId, text)
  /\ SET_GENERATING(FALSE)
  /\ settled' = Resolved(calls[c], text, NoText, [value |-> TRUE])
  /\ calls' = [Aged(calls, now') EXCEPT ![c] = Done]
  /\ UNCHANGED <<savedApps, currentApp, aiClient, localStorage, apiKey, boot>>

\* variant: the cache write sits in the finally block and runs on failure too
FollowUpFailure_WritesCache(c, t, message) ==
  /\ calls[c].op = "updateAppWithFollowUp" /\ calls[c].pc = "content"
  /\ t \in ArrivalTimes(calls[c].fresh)
  /\ now' = t
  /\ settled' = Rejected(calls[c], NoText, "Failed to update app: " \o message)
  /\ calls' = [Aged(calls, now') EXCEPT ![c] = Done]
  /\ SET_GENERATED_APP(calls[c].appId, Undefined)
  /\ SET_GENERATING(FALSE)
  /\ UNCHANGED <<savedApps, currentApp, aiClient, localStorage, apiKey, boot>>

\* lines 295-300: catch and finally of updateAppWithFollowUp
FollowUpFailure(c, t, message) ==
  /\ calls[c].op = "updateAppWithFollowUp" /\ calls[c].pc = "content"
  /\ t \in ArrivalTimes(calls[c].fresh)
  /\ now' = t
  /\ settled' = Rejected(calls[c], NoText, "Failed to update app: " \o message)
  /\ calls' = [Aged(calls, now') EXCEPT ![c] = Done]
  /\ SET_GENERATING(FALSE)
  /\ UNCHANGED <<savedApps, currentApp, generatedApps, aiClient,
                 localStorage, apiKey, boot>>

(* ------------------------ synchronous operations ---------------------- *)
\* lines 306-310
SaveCurrentApp ==
  /\ boot = "ready"
  /\ \/ /\ IF currentApp # Null
           THEN /\ Len(savedApps) < MaxApps
                /\ ADD_APP(currentApp)
           ELSE UNCHANGED <<savedApps, localStorage>>
        /\ UNCHANGED <<currentApp, isGenerating, generatedApps, aiClient,
                       apiKey, boot, calls>>
        /\ settled' = NoResult
     \/ /\ currentApp # Null
        /\ \E e \in SetItemErrors : TreeUnmounted(e)
  /\ UNCHANGED now

\* variant: deleting the artifact on screen also clears currentApp
DeleteApp_ClearsCurrent(id) ==
  /\ boot = "ready"
  /\ DELETE_APP(id)
  /\ currentApp' = IF Get(currentApp, "id") = id THEN Null ELSE currentApp
  /\ UNCHANGED <<isGenerating, generatedApps, aiClient, apiKey, boot, now, calls>>
  /\ settled' = NoResult

\* variant: deleting an artifact also drops its content from the cache
DeleteApp_DropsCache(id) ==
  /\ boot = "ready"
  /\ DELETE_APP(id)
  /\ generatedApps' = [k \in DOMAIN generatedApps \ {id} |-> generatedApps[k]]
  /\ UNCHANGED <<currentApp, isGenerating, aiClient, apiKey, boot, now, calls>>
  /\ settled' = NoResult

\* MyAppsPage.handleDeleteApp: dispatch DELETE_APP
DeleteApp(id) ==
  /\ boot = "ready"
  /\ \/ /\ DELETE_APP(id)
        /\ UNCHANGED <<currentApp, isGenerating, generatedApps, aiClient,
                       apiKey, boot, calls>>
        /\ settled' = NoResult
     \/ \E e \in SetItemErrors : TreeUnmounted(e)
  /\ UNCHANGED now

\* dispatch UPDATE_APP through the dispatch function the context exposes
UpdateApp(id, updates) ==
  /\ boot = "ready"
  /\ \/ /\ UPDATE_APP(id, updates)
        /\ UNCHANGED <<currentApp, isGenerating, generatedApps, aiClient,
                       apiKey, boot, calls>>
        /\ settled' = NoResult
     \/ \E e \in SetItemErrors : TreeUnmounted(e)
  /\ UNCHANGED now

\* the page is reloaded: memory starts again from initialState (lines 5-11),
\* pending calls die with the page, storage stays
Restart ==
  /\ boot \in {"ready", "crashed"}
  /\ savedApps' = <<>>
  /\ currentApp' = Null
  /\ isGenerating' = FALSE
  /\ generatedApps' = EmptyMap
  /\ aiClient' = FALSE
  /\ calls' = [c \in CallIds |-> IF InFlight(c) THEN Done ELSE calls[c]]
  /\ settled' = NoResult
  /\ boot' = "mount"
  /\ UNCHANGED <<localStorage, apiKey, now>>

(* --------------------------- specification ---------------------------- *)
\* every answer arrives at most one millisecond after the step before it
Times == 1..(1 + 2 * MaxCalls)

Next ==
  \/ LoadSavedApps /\ UNCHANGED ui
  \/ InitAIClient /\ UNCHANGED ui
  \/ Restart /\ UNCHANGED ui
  \/ SaveCurrentApp /\ UNCHANGED ui
  \/ \E id \in KnownIds : DeleteApp(id) /\ UNCHANGED ui
  \/ \E id \in KnownIds, u \in UpdatePayloads : UpdateApp(id, u) /\ UNCHANGED ui
  \/ \E c \in CallIds, p \in Prompts : GenerateApp(c, p) /\ UNCHANGED ui
  \/ \E c \in CallIds, t \in Times, x \in ContentTexts :
        GenerateContentResponse(c, t, x) /\ UNCHANGED ui
  \/ \E c \in CallIds, t \in Times, x \in MetaTexts :
        GenerateMetadataResponse(c, t, x) /\ UNCHANGED ui
  \/ \E c \in CallIds, t \in Times, m \in ServiceErrors :
        GenerateAppFailure(c, t, m) /\ UNCHANGED ui
  \/ \E c \in CallIds, id \in KnownIds, p \in FollowUpPrompts :
        UpdateAppWithFollowUp(c, id, p) /\ UNCHANGED ui
  \/ \E c \in CallIds, t \in Times, x \in ContentTexts :
        FollowUpResponse(c, t, x) /\ UNCHANGED ui
  \/ \E c \in CallIds, t \in Times, m \in ServiceErrors :
        FollowUpFailure(c, t, m) /\ UNCHANGED ui

Spec == Init /\ [][Next]_vars

(* the external service eventually answers or fails every pending request *)
Answer(c) ==
  /\ \E t \in Times :
       \/ \E x \in ContentTexts : GenerateContentResponse(c, t, x)
       \/ \E x \in MetaTexts : GenerateMetadataResponse(c, t, x)
       \/ \E m \in ServiceErrors : GenerateAppFailure(c, t, m)
       \/ \E x \in ContentTexts : FollowUpResponse(c, t, x)
       \/ \E m \in ServiceErrors : FollowUpFailure(c, t, m)
  /\ UNCHANGED ui

\* a first visit (nothing stored yet) with the API key configured
FirstVisit == Init /\ localStorage = NoItem /\ apiKey

FairSpec == FirstVisit /\ [][Next]_vars /\ \A c \in CallIds : WF_vars(Answer(c))

(* ------------------------- presentation layer ------------------------ *)
\* a route is entered: the page component mounts with its local state fresh
Route(page, appId) ==
  [HomeRoute EXCEPT !.page = page, !.appId = appId,
     !.cancelled = ui.cancelled \/ ui.showLoadingModal]

\* AppPreview lines 42-44 and 72: the preview is drawn, not the spinner
PreviewDrawn(appId) ==
  LET shown == IF Get(currentApp, "id") = appId THEN {currentApp}
               ELSE {savedApps[i] : i \in {j \in 1..Len(savedApps) :
                       Get(savedApps[j], "id") = appId
                       /\ \A k \in 1..(j - 1) : Get(savedApps[k], "id") # appId}}
  IN \E appData \in shown :
       \/ Get(appData, "code") # Undefined
       \/ MapGet(generatedApps, appId) # Undefined

\* AppPreview line 43: currentApp when it has the route's id, else the first
\* saved entry with that id; the empty set stands for undefined
AppDataOf(appId) ==
  IF Get(currentApp, "id") = appId THEN {currentApp}
  ELSE {savedApps[i] : i \in {j \in 1..Len(savedApps) :
          Get(savedApps[j], "id") = appId
          /\ \A k \in 1..(j - 1) : Get(savedApps[k], "id") # appId}}

\* AppPreview line 44: appData?.code || generatedApps.get(appId)
AppContent(appId) ==
  IF \E appData \in AppDataOf(appId) : Get(appData, "code") # Undefined
  THEN (CHOOSE appData \in AppDataOf(appId) : TRUE).code
  ELSE MapGet(generatedApps, appId)

\* the other AppPreview of the repository: generatedApps.get(appId) alone
AppContentFromCache(appId) == MapGet(generatedApps, appId)

\* its loading guard: !appData || !appContent shows the spinner
PreviewDrawnFromCache(appId) ==
  /\ AppDataOf(appId) # {}
  /\ AppContentFromCache(appId) # Undefined

\* the browser reloads the page on its current route
Reload ==
  /\ Restart
  /\ ui' = [ui EXCEPT !.showLoadingModal = FALSE, !.showFollowUpModal = FALSE,
                       !.cancelled = FALSE]

\* what the textarea of HomePage can hold: a prompt, nothing, or blanks
BlankPrompts == {"", "   "}
UIPrompts == Prompts \cup BlankPrompts

\* String.prototype.trim on these texts
Trim(text) == IF text \in BlankPrompts THEN "" ELSE text

\* variant: the prompt is passed on without the blank check
HandleCreateApp_NoTrim(c, prompt) ==
  /\ ui.page = "home"
  /\ ~isGenerating
  /\ GenerateApp(c, prompt)
  /\ ui' = [ui EXCEPT !.showLoadingModal = aiClient, !.cancelled = FALSE]

\* HomePage.handleCreateApp up to its await: a blank prompt returns at once;
\* the button is disabled while isGenerating; a rejection of the client check
\* closes the modal at once
HandleCreateApp(c, prompt) ==
  /\ ui.page = "home"
  /\ ~isGenerating
  /\ IF Trim(prompt) = ""
     THEN /\ boot = "ready"
          /\ settled' = NoResult
          /\ UNCHANGED core
          /\ UNCHANGED ui
     ELSE /\ GenerateApp(c, prompt)
          /\ ui' = [ui EXCEPT !.showLoadingModal = aiClient, !.cancelled = FALSE]

\* variant: Cancel abandons the call and clears the flag
CancelLoadingModal_Aborts ==
  /\ ui.page = "home" /\ ui.showLoadingModal
  /\ ui' = [ui EXCEPT !.showLoadingModal = FALSE, !.cancelled = TRUE]
  /\ calls' = [c \in CallIds |-> IF InFlight(c) THEN Done ELSE calls[c]]
  /\ isGenerating' = FALSE
  /\ settled' = NoResult
  /\ UNCHANGED <<savedApps, currentApp, generatedApps, aiClient,
                 localStorage, apiKey, boot, now>>

\* LoadingModal Cancel button: onClose sets showLoadingModal false
CancelLoadingModal ==
  /\ ui.page = "home" /\ ui.showLoadingModal
  /\ ui' = [ui EXCEPT !.showLoadingModal = FALSE, !.cancelled = TRUE]
  /\ settled' = NoResult
  /\ UNCHANGED core

\* BurgerMenu.handleNavigation, the home and back buttons
Navigate(page) ==
  /\ boot = "ready"
  /\ page # ui.page
  /\ ui' = Route(page, "")
  /\ settled' = NoResult
  /\ UNCHANGED core

\* MyAppsPage card click, or the address bar: /preview/:appId is entered and
\* the auto-register effect of AppPreview (lines 36-40) runs
OpenPreview(appId) ==
  /\ boot = "ready"
  /\ ui.page # "preview"
  /\ IF Get(currentApp, "id") = appId /\ appId \notin {Get(savedApps[i], "id") : i \in 1..Len(savedApps)}
     THEN SaveCurrentApp
     ELSE settled' = NoResult /\ UNCHANGED core
  /\ ui' = Route("preview", appId)

\* AppPreview Follow Up button, disabled while isGenerating
OpenFollowUpModal ==
  /\ boot = "ready"
  /\ ui.page = "preview" /\ PreviewDrawn(ui.appId)
  /\ ~ui.showFollowUpModal
  /\ ~isGenerating
  /\ ui' = [ui EXCEPT !.showFollowUpModal = TRUE]
  /\ settled' = NoResult
  /\ UNCHANGED core

\* FollowUpModal close button and backdrop
CloseFollowUpModal ==
  /\ ui.showFollowUpModal
  /\ ui' = [ui EXCEPT !.showFollowUpModal = FALSE]
  /\ settled' = NoResult
  /\ UNCHANGED core

\* variant: the form submits whatever isLoading says
SubmitFollowUp_NoLoadingCheck(c, followUpPrompt) ==
  /\ ui.page = "preview" /\ ui.showFollowUpModal
  /\ UpdateAppWithFollowUp(c, ui.appId, followUpPrompt)
  /\ UNCHANGED ui

\* FollowUpModal.handleSubmit and AppPreview.handleFollowUp up to its await
SubmitFollowUp(c, followUpPrompt) ==
  /\ ui.page = "preview" /\ ui.showFollowUpModal
  /\ ~isGenerating
  /\ UpdateAppWithFollowUp(c, ui.appId, followUpPrompt)
  /\ UNCHANGED ui

\* HomePage.handleCreateApp after its await: the modal is closed, and on
\* success the router is sent to the preview of the new artifact
CreateAppSettled(c, t, text) ==
  /\ GenerateMetadataResponse(c, t, text)
  /\ ui' = IF settled'.outcome = "resolved"
            THEN [Route("preview", settled'.ret.id) EXCEPT !.cancelled = ui.cancelled]
            ELSE [ui EXCEPT !.showLoadingModal = FALSE]

CreateAppFailed(c, t, message) ==
  /\ GenerateAppFailure(c, t, message)
  /\ ui' = [ui EXCEPT !.showLoadingModal = FALSE]

\* AppPreview.handleFollowUp after its await: the modal is closed on success
FollowUpSettled(c, t, text) ==
  /\ FollowUpResponse(c, t, text)
  /\ ui' = [ui EXCEPT !.showFollowUpModal = FALSE]

\* MyAppsPage.handleDeleteApp, confirmed
HandleDeleteApp(id) ==
  /\ ui.page = "my-apps"
  /\ id \in {Get(savedApps[i], "id") : i \in 1..Len(savedApps)}
  /\ DeleteApp(id)
  /\ UNCHANGED ui

UINext ==
  \/ LoadSavedApps /\ UNCHANGED ui
  \/ InitAIClient /\ UNCHANGED ui
  \/ Reload
  \/ \E c \in CallIds, p \in UIPrompts : HandleCreateApp(c, p)
  \/ CancelLoadingModal
  \/ \E page \in {"home", "my-apps"} : Navigate(page)
  \/ \E id \in KnownIds : OpenPreview(id)
  \/ OpenFollowUpModal
  \/ CloseFollowUpModal
  \/ \E c \in CallIds, p \in FollowUpPrompts : SubmitFollowUp(c, p)
  \/ \E id \in KnownIds : HandleDeleteApp(id)
  \/ \E c \in CallIds, t \in Times, x \in ContentTexts :
        GenerateContentResponse(c, t, x) /\ UNCHANGED ui
  \/ \E c \in CallIds, t \in Times, x \in MetaTexts : CreateAppSettled(c, t, x)
  \/ \E c \in CallIds, t \in Times, m \in ServiceErrors : CreateAppFailed(c, t, m)
  \/ \E c \in CallIds, t \in Times, x \in ContentTexts : FollowUpSettled(c, t, x)
  \/ \E c \in CallIds, t \in Times, m \in ServiceErrors :
        FollowUpFailure(c, t, m) /\ UNCHANGED ui

\* the application as its pages drive it
UISpec == Init /\ [][UINext]_vars

(* ------------------------- the reducer alone -------------------------- *)
\* the action just dispatched, as a consumer of the exposed dispatch sees it
Dispatched(type, id, payload) ==
  [NoResult EXCEPT !.op = type, !.appId = id, !.ret = payload]

\* payloads: a second artifact, lists, ids, partial fields
NewApp ==
  AppData(FallbackMetadata, DateNowString(1), 1, "Build a todo list app",
          "<!DOCTYPE html>B</html>")
ReducerApps == {OldApp, NewApp}
ReducerLists == {<<NewApp, OldApp>>}
ReducerIds == {OldApp.id, GhostId}
ReducerUpdates == UpdatePayloads \cup {[id |-> "7"]}

\* what a dispatch leaves alone besides the reducer's state
outside == <<apiKey, boot, now, calls, ui>>

\* variant: the cache is replaced by a map holding the new entry only
Dispatch_SET_GENERATED_APP_Replaces(id, content) ==
  /\ boot = "ready"
  /\ generatedApps' = MapSet(EmptyMap, id, content)
  /\ UNCHANGED <<savedApps, currentApp, isGenerating, aiClient, localStorage>>
  /\ settled' = Dispatched("SET_GENERATED_APP", id, Null)
  /\ UNCHANGED outside

\* lines 30-31: { ...state, savedApps: action.payload }
Dispatch_SET_SAVED_APPS(payload) ==
  /\ boot = "ready"
  /\ SET_SAVED_APPS(payload)
  /\ UNCHANGED <<currentApp, isGenerating, generatedApps, aiClient, localStorage>>
  /\ settled' = Dispatched("SET_SAVED_APPS", "", Null)
  /\ UNCHANGED outside

\* lines 38-39: { ...state, currentApp: action.payload }
Dispatch_SET_CURRENT_APP(payload) ==
  /\ boot = "ready"
  /\ SET_CURRENT_APP(payload)
  /\ UNCHANGED <<savedApps, isGenerating, generatedApps, aiClient, localStorage>>
  /\ settled' = Dispatched("SET_CURRENT_APP", "", payload)
  /\ UNCHANGED outside

\* lines 41-42: { ...state, isGenerating: action.payload }
Dispatch_SET_GENERATING(payload) ==
  /\ boot = "ready"
  /\ SET_GENERATING(payload)
  /\ UNCHANGED <<savedApps, currentApp, generatedApps, aiClient, localStorage>>
  /\ settled' = Dispatched("SET_GENERATING", "", Null)
  /\ UNCHANGED outside

\* lines 44-47: { ...state, generatedApps: copy with the entry set }
Dispatch_SET_GENERATED_APP(id, content) ==
  /\ boot = "ready"
  /\ SET_GENERATED_APP(id, content)
  /\ UNCHANGED <<savedApps, currentApp, isGenerating, aiClient, localStorage>>
  /\ settled' = Dispatched("SET_GENERATED_APP", id, Null)
  /\ UNCHANGED outside

\* lines 33-36
Dispatch_ADD_APP(payload) ==
  /\ boot = "ready"
  /\ Len(savedApps) < MaxApps
  /\ \/ /\ ADD_APP(payload)
        /\ UNCHANGED <<currentApp, isGenerating, generatedApps, aiClient>>
        /\ settled' = Dispatched("ADD_APP", payload.id, payload)
        /\ UNCHANGED <<apiKey, boot, calls>>
     \/ \E e \in SetItemErrors : TreeUnmounted(e)
  /\ UNCHANGED <<now, ui>>

\* lines 49-54
Dispatch_UPDATE_APP(id, updates) ==
  /\ boot = "ready"
  /\ \/ /\ UPDATE_APP(id, updates)
        /\ UNCHANGED <<currentApp, isGenerating, generatedApps, aiClient>>
        /\ settled' = Dispatched("UPDATE_APP", id, updates)
        /\ UNCHANGED <<apiKey, boot, calls>>
     \/ \E e \in SetItemErrors : TreeUnmounted(e)
  /\ UNCHANGED <<now, ui>>

\* lines 56-59
Dispatch_DELETE_APP(id) ==
  /\ boot = "ready"
  /\ \/ /\ DELETE_APP(id)
        /\ UNCHANGED <<currentApp, isGenerating, generatedApps, aiClient>>
        /\ settled' = Dispatched("DELETE_APP", id, Null)
        /\ UNCHANGED <<apiKey, boot, calls>>
     \/ \E e \in SetItemErrors : TreeUnmounted(e)
  /\ UNCHANGED <<now, ui>>

ReducerNext ==
  \/ LoadSavedApps /\ UNCHANGED ui
  \/ InitAIClient /\ UNCHANGED ui
  \/ Restart /\ UNCHANGED ui
  \/ \E l \in ReducerLists : Dispatch_SET_SAVED_APPS(l)
  \/ \E a \in {NewApp, Null} : Dispatch_SET_CURRENT_APP(a)
  \/ \E b \in BOOLEAN : Dispatch_SET_GENERATING(b)
  \/ \E id \in {OldApp.id, NewApp.id}, x \in ContentTexts :
       Dispatch_SET_GENERATED_APP(id, x)
  \/ \E a \in ReducerApps : Dispatch_ADD_APP(a)
  \/ \E id \in ReducerIds, u \in ReducerUpdates : Dispatch_UPDATE_APP(id, u)
  \/ \E id \in ReducerIds : Dispatch_DELETE_APP(id)

\* the reducer driven through the dispatch function the context exposes
ReducerSpec == Init /\ [][ReducerNext]_vars

(* ------------------------------ properties ---------------------------- *)
IdsOf(list) == {Get(list[i], "id") : i \in 1..Len(list)}

\* the step just taken settled an invocation that had passed its client check
StartedCallSettled == settled.outcome # "none" /\ settled.sent > 0

GenerateResolved == settled.op = "generateApp" /\ settled.outcome = "resolved"
ReviseResolved == settled.op = "updateAppWithFollowUp" /\ settled.outcome = "resolved"

\* a step of a generateApp or updateAppWithFollowUp invocation: the page stays
\* loaded, and a pending invocation moves or a caller is handed a result
CallStep ==
  /\ boot = "ready" /\ boot' = "ready"
  /\ (calls' # calls \/ settled'.outcome # "none")

\* two lists agree entry by entry on every field read
SameList(a, b) ==
  /\ Len(a) = Len(b)
  /\ \A i \in 1..Len(a) : \A f \in Fields : Get(a[i], f) = Get(b[i], f)

\* list without its k-th entry
RemoveAt(list, k) == SubSeq(list, 1, k - 1) \o SubSeq(list, k + 1, Len(list))

\* C1: no two entries of savedApps have the same id, in every state reachable
\* from a duplicate-free stored list.
C1_UniqueSavedIds ==
  \A i, j \in 1..Len(savedApps) :
    i # j => Get(savedApps[i], "id") # Get(savedApps[j], "id")

\* C2: every generateApp / updateAppWithFollowUp call that has started
\* eventually settles once the service answers or fails, and in the state right
\* after it settles isGenerating is false.
C2_StartedCallsSettleWithFlagCleared ==
  /\ \A c \in CallIds : InFlight(c) ~> ~InFlight(c)
  /\ [](StartedCallSettled => ~isGenerating)

C2_Witness ==
  /\ settled.outcome = "rejected" /\ settled.sent = 2
  /\ ~isGenerating

\* C3: a successful generateApp returns an artifact whose id is the id of no
\* entry already in savedApps, and savedApps afterwards is the previous list
\* with exactly that artifact appended.
C3_GenerateAppendsFreshId ==
  [][GenerateResolved' =>
       /\ Get(settled'.ret, "id") \notin IdsOf(savedApps)
       /\ savedApps' = Append(savedApps, settled'.ret)]_vars

\* C4: when generateApp or updateAppWithFollowUp rejects because an external
\* call failed, no step of that call has changed savedApps, the persisted list,
\* currentApp or the content cache, and isGenerating is false.
C4_RejectionChangesNothing ==
  [][/\ (CallStep /\ settled'.outcome # "resolved") =>
          UNCHANGED <<savedApps, localStorage, currentApp, generatedApps>>
     /\ (settled'.outcome = "rejected" /\ settled'.sent > 0) => ~isGenerating']_vars

C4_Witness ==
  /\ settled.outcome = "rejected" /\ settled.sent = 1
  /\ settled.op = "updateAppWithFollowUp"
  /\ Len(savedApps) > 0 /\ currentApp # Null

\* C5: for every metadata answer that does not parse as JSON, generateApp
\* resolves and the artifact has the fallback name, description and type.
C5_UnparseableMetadataFallsBack ==
  (/\ settled.op = "generateApp"
   /\ settled.meta \in MetaTexts
   /\ JSONparse(settled.meta).kind = "SyntaxError")
  => /\ settled.outcome = "resolved"
     /\ settled.ret.name = "Custom App"
     /\ settled.ret.description = "AI-generated application"
     /\ settled.ret.type = "other"
     /\ settled.ret = savedApps[Len(savedApps)]

C5_Witness ==
  /\ GenerateResolved
  /\ settled.meta = "Sure! Here is the JSON you asked for"
  /\ currentApp.name = "Custom App"

\* some code is known for id: a cache entry, or a saved artifact carrying code
HasCode(id) ==
  \/ MapGet(generatedApps, id) # Undefined
  \/ \E i \in 1..Len(savedApps) :
       Get(savedApps[i], "id") = id /\ Get(savedApps[i], "code") # Undefined

\* C6: updateAppWithFollowUp for an id with no code in the cache and none in
\* the saved list rejects with ArtifactNotFound and issues no request.
C6_ReviseUnknownIdIssuesNoRequest ==
  [][\A c \in CallIds, id \in KnownIds, p \in FollowUpPrompts :
       (UpdateAppWithFollowUp(c, id, p) /\ aiClient /\ ~HasCode(id)) =>
         /\ calls' = calls
         /\ settled'.outcome = "rejected"
         /\ settled'.err = "ArtifactNotFound"]_vars

\* C7: after a successful updateAppWithFollowUp(id, ...), the cache entry for
\* id is the returned text, and so is the code field of the record with that id
\* in savedApps and of currentApp, where the record carries code.
C7_ReviseReplacesCodeEverywhere ==
  ReviseResolved =>
    /\ MapGet(generatedApps, settled.appId) = settled.text
    /\ \A i \in 1..Len(savedApps) :
         (Get(savedApps[i], "id") = settled.appId /\ "code" \in DOMAIN savedApps[i])
           => savedApps[i].code = settled.text
    /\ (Get(currentApp, "id") = settled.appId /\ "code" \in DOMAIN currentApp)
           => currentApp.code = settled.text

\* a step of an updateAppWithFollowUp invocation: its entry, or its settling
ReviseStep ==
  \/ \E c \in CallIds, id \in KnownIds, p \in FollowUpPrompts :
       UpdateAppWithFollowUp(c, id, p)
  \/ \E c \in CallIds, t \in Times, x \in ContentTexts : FollowUpResponse(c, t, x)
  \/ \E c \in CallIds, t \in Times, m \in ServiceErrors : FollowUpFailure(c, t, m)

MetadataFields == Fields \ {"code"}

\* C8: updateAppWithFollowUp, succeed or fail, leaves id, name, description,
\* type, createdAt and prompt of every saved artifact and of currentApp
\* unchanged, and the length and order of savedApps too.
C8_ReviseKeepsMetadata ==
  [][ReviseStep =>
       /\ Len(savedApps') = Len(savedApps)
       /\ \A i \in 1..Len(savedApps) : \A f \in MetadataFields :
            Get(savedApps'[i], f) = Get(savedApps[i], f)
       /\ \A f \in MetadataFields : Get(currentApp', f) = Get(currentApp, f)
       /\ (currentApp' = Null) = (currentApp = Null)]_vars

C8_Witness ==
  /\ ReviseResolved
  /\ \E i \in 1..Len(savedApps) :
       /\ Get(savedApps[i], "id") = settled.appId
       /\ Get(savedApps[i], "code") # settled.text
  /\ Get(currentApp, "id") = settled.appId

\* C9: DELETE_APP with id removes exactly the one entry whose id matches and
\* keeps the others in order; when no entry has that id the list is unchanged.
C9_DeleteRemovesExactlyOne ==
  [][\A id \in KnownIds :
       DeleteApp(id) =>
         IF id \in IdsOf(savedApps)
         THEN \E k \in 1..Len(savedApps) :
                /\ Get(savedApps[k], "id") = id
                /\ savedApps' = RemoveAt(savedApps, k)
         ELSE savedApps' = savedApps]_vars

\* C11: the startup load never raises: when the storage key is absent or the
\* stored text is not valid JSON, no SyntaxError escapes the load effect, and
\* once the load has run savedApps is the empty list and the application runs.
C11_LoadDegradesToEmpty ==
  /\ ~(settled.outcome = "uncaught" /\ settled.err = "SyntaxError")
  /\ (boot # "mount" /\ ~Readable(localStorage)) =>
        (boot \in {"ai", "ready"} /\ savedApps = <<>>)
  /\ (boot = "ai" /\ ~localStorage.present) => savedApps = <<>>

\* C10: once the startup load has run, loading the item under 'bya-saved-apps'
\* yields a list equal to savedApps entry by entry and field by field, after
\* every ADD_APP, UPDATE_APP and DELETE_APP, for lists of any length.
C10_RestartYieldsSameList ==
  boot \in {"ai", "ready"} => SameList(ParseSavedApps(localStorage), savedApps)

C10_Witness ==
  /\ boot = "ready"
  /\ Len(savedApps) = 2
  /\ Get(savedApps[1], "name") = "Renamed"
  /\ Get(savedApps[2], "name") = Undefined
  /\ localStorage.present

\* the messages of the errors thrown by the two client checks
ClientUnavailableMessages ==
  {"AI client not initialized. Please check your API key.",
   "AI client not initialized."}

\* C12: when no AI client is initialized, a generateApp or
\* updateAppWithFollowUp call rejects with the client-unavailable error without
\* issuing a request, leaves isGenerating, savedApps, the persisted list,
\* currentApp and the content cache as they were, and no rejection after a
\* request was issued carries a client-unavailable message.
C12_NoClientRejectsBeforeAnyCall ==
  [][/\ \A c \in CallIds :
          (~aiClient /\ calls[c].pc = "idle" /\ calls'[c].pc # "idle") =>
            /\ settled'.outcome = "rejected"
            /\ settled'.sent = 0
            /\ settled'.err \in ClientUnavailableMessages
            /\ ~InFlight(c)'
            /\ UNCHANGED <<isGenerating, savedApps, localStorage, currentApp,
                           generatedApps>>
     /\ (settled'.outcome = "rejected" /\ settled'.sent > 0) =>
            settled'.err \notin ClientUnavailableMessages]_vars

C12_Witness ==
  /\ settled.outcome = "rejected" /\ settled.sent = 0
  /\ settled.op = "updateAppWithFollowUp"
  /\ settled.err = "AI client not initialized."
  /\ ~aiClient /\ ~isGenerating
  /\ Len(savedApps) > 0

\* the metadata answer is a JSON object carrying name, description and type
CarriesMetadata(text) ==
  /\ JSONparse(text).kind = "object"
  /\ {"name", "description", "type"} \subseteq DOMAIN JSONparse(text).obj

\* C13: when generateApp(prompt) succeeds with content answer C and metadata
\* answer {name N, description D, type T}, the returned artifact has name N,
\* description D, type T, the given prompt and code C; the cache maps its id to
\* C; currentApp is that artifact; and it is the last entry of savedApps and of
\* the persisted list, all in the step in which the call returns.
C13_GenerateResultIsStoredEverywhere ==
  [][\A c \in CallIds :
       (GenerateResolved' /\ InFlight(c) /\ ~InFlight(c)') =>
         LET a == settled'.ret
             stored == ParseSavedApps(localStorage')
         IN /\ a.prompt = calls[c].prompt
            /\ a.code = calls[c].generatedCode
            /\ a.code = settled'.text
            /\ CarriesMetadata(settled'.meta) =>
                 /\ a.name = JSONparse(settled'.meta).obj.name
                 /\ a.description = JSONparse(settled'.meta).obj.description
                 /\ a.type = JSONparse(settled'.meta).obj.type
            /\ MapGet(generatedApps', a.id) = a.code
            /\ currentApp' = a
            /\ savedApps' = Append(savedApps, a)
            /\ Len(stored) = Len(savedApps')
            /\ \A f \in Fields : Get(stored[Len(stored)], f) = Get(a, f)]_vars

C13_Witness ==
  /\ GenerateResolved
  /\ settled.meta = MetaTodo
  /\ settled.ret.name = "Todo" /\ settled.ret.type = "todo"
  /\ settled.ret.code = "<!DOCTYPE html>B</html>"
  /\ Len(savedApps) = 2
  /\ savedApps[2] = settled.ret
  /\ currentApp = settled.ret

\* the calls past their client check and not yet settled
InFlightCalls == {c \in CallIds : InFlight(c)}

\* C14: in every reachable state isGenerating is true if and only if exactly
\* one generateApp / updateAppWithFollowUp call is in flight.
C14_FlagIffOneCallInFlight ==
  isGenerating <=> (Cardinality(InFlightCalls) = 1)

\* the types the metadata directive enumerates (line 193)
AppTypes == {"todo", "timer", "calculator", "tracker", "notes", "converter", "other"}

\* C15: every artifact generateApp returns has a type of the enumerated set;
\* a metadata answer with a type outside the set, or with no type, gives an
\* artifact of type "other".
C15_TypeIsEnumerated ==
  GenerateResolved =>
    /\ Get(settled.ret, "type") \in AppTypes
    /\ (~CarriesMetadata(settled.meta)
          \/ JSONparse(settled.meta).obj.type \notin AppTypes)
         => Get(settled.ret, "type") = "other"

\* C16: a localStorage.setItem that throws during ADD_APP, UPDATE_APP or
\* DELETE_APP does not propagate out of the transition: in the state after it
\* the application is still mounted and running on its in-memory state.
C16_FailedWriteIsContained ==
  (settled.outcome = "uncaught" /\ settled.err \in SetItemErrors) => boot = "ready"

\* C17: within one generateApp call the metadata request is issued only in the
\* step in which the content call resolved, and never when the content call
\* fails; a generateApp call issues at most two requests, and an
\* updateAppWithFollowUp call that passed its client check exactly one.
C17_RequestsAreSequential ==
  [][\A c \in CallIds :
       /\ (calls'[c].sent = 2 /\ calls[c].sent # 2) =>
            /\ calls[c].op = "generateApp" /\ calls[c].pc = "content"
            /\ calls[c].sent = 1
            /\ calls'[c].pc = "metadata"
            /\ calls'[c].generatedCode \in ContentTexts
       /\ calls'[c].sent <= 2
       /\ (InFlight(c)' /\ calls'[c].op = "updateAppWithFollowUp") =>
            calls'[c].sent = 1
       /\ (InFlight(c) /\ ~InFlight(c)' /\ settled'.outcome \in {"resolved", "rejected"}) =>
            /\ settled'.sent = calls[c].sent
            /\ (calls[c].pc = "content" /\ calls[c].op = "generateApp") =>
                  (settled'.outcome = "rejected" /\ settled'.sent = 1)
            /\ calls[c].op = "updateAppWithFollowUp" => settled'.sent = 1]_vars

C17_Witness ==
  /\ settled.op = "generateApp"
  /\ settled.outcome = "rejected"
  /\ settled.sent = 1
  /\ settled.err = "Failed to generate app: Connection error."

\* C18: driven through the pages (HomePage build button, AppPreview Follow Up
\* button, FollowUpModal submit), no generateApp or updateAppWithFollowUp call
\* starts while isGenerating is true, so at most one call is in flight in every
\* reachable state, also after the loading modal was dismissed and another
\* page was entered.
C18_PagesStartOneCallAtATime ==
  /\ [](Cardinality(InFlightCalls) <= 1)
  /\ [][\A c \in CallIds : (~InFlight(c) /\ InFlight(c)') => ~isGenerating]_vars

C18_Witness ==
  /\ isGenerating
  /\ Cardinality(InFlightCalls) = 1
  /\ \E c \in CallIds : calls[c].pc = "idle"
  /\ ui.cancelled /\ ~ui.showLoadingModal
  /\ ui.page = "preview" /\ PreviewDrawn(ui.appId)

\* C19: there is no cancellation. Dismissing the loading modal or entering
\* another page leaves a generateApp call in flight; the call leaves flight
\* only by settling (or with the page itself), and when it succeeds its
\* artifact is written to the cache, made currentApp and appended to savedApps
\* and to the persisted list, on the state as it is at that moment.
C19_AbandonedCallStillApplies ==
  [][/\ (~ui.cancelled /\ ui'.cancelled /\ boot' = "ready") =>
          UNCHANGED <<calls, isGenerating>>
     /\ \A c \in CallIds :
          (InFlight(c) /\ calls[c].op = "generateApp" /\ ~InFlight(c)') =>
            \/ boot' # "ready"
            \/ settled'.op = "generateApp" /\ settled'.outcome = "rejected"
            \/ /\ GenerateResolved'
               /\ MapGet(generatedApps', settled'.ret.id) = calls[c].generatedCode
               /\ currentApp' = settled'.ret
               /\ savedApps' = Append(savedApps, settled'.ret)
               /\ localStorage' = JSONstringify(savedApps')]_vars

C19_Witness ==
  /\ GenerateResolved
  /\ ui.cancelled
  /\ ui.page = "preview" /\ ui.appId = settled.ret.id
  /\ Len(savedApps) = 2
  /\ savedApps[2] = settled.ret
  /\ currentApp = settled.ret

\* C20: while the application runs, currentApp changes only in the step in
\* which a generateApp call succeeds; a failed generateApp, every step of
\* updateAppWithFollowUp, saveCurrentApp, ADD_APP, UPDATE_APP, DELETE_APP and
\* SET_SAVED_APPS leave it exactly as it was.
C20_OnlyGenerateSetsCurrentApp ==
  [][(boot' \in {"ai", "ready"} /\ currentApp' # currentApp) => GenerateResolved']_vars

C20_Witness ==
  /\ boot = "ready"
  /\ currentApp # Null
  /\ Get(currentApp, "id") \notin IdsOf(savedApps)
  /\ Get(currentApp, "code") # MapGet(generatedApps, Get(currentApp, "id"))
  /\ Len(savedApps) > 0

\* C21: SET_CURRENT_APP, SET_GENERATING, SET_GENERATED_APP and SET_SAVED_APPS
\* write nothing to durable storage, and each changes only its own field
\* (currentApp, isGenerating, the cache entry of the given id, savedApps),
\* leaving every other field and every other cache entry as it was.
C21_SettersTouchOnlyTheirField ==
  [][/\ settled'.op = "SET_CURRENT_APP" =>
          /\ currentApp' = settled'.ret
          /\ UNCHANGED <<savedApps, isGenerating, generatedApps, aiClient, localStorage>>
     /\ settled'.op = "SET_GENERATING" =>
          UNCHANGED <<savedApps, currentApp, generatedApps, aiClient, localStorage>>
     /\ settled'.op = "SET_GENERATED_APP" =>
          /\ UNCHANGED <<savedApps, currentApp, isGenerating, aiClient, localStorage>>
          /\ DOMAIN generatedApps' = DOMAIN generatedApps \cup {settled'.appId}
          /\ generatedApps'[settled'.appId] \in ContentTexts
          /\ \A k \in DOMAIN generatedApps \ {settled'.appId} :
               generatedApps'[k] = generatedApps[k]
     /\ settled'.op = "SET_SAVED_APPS" =>
          UNCHANGED <<currentApp, isGenerating, generatedApps, aiClient, localStorage>>]_vars

C21_Witness ==
  /\ settled.op = "SET_GENERATED_APP"
  /\ settled.appId = NewApp.id
  /\ DOMAIN generatedApps = {OldApp.id, NewApp.id}
  /\ generatedApps[OldApp.id] # generatedApps[NewApp.id]
  /\ localStorage = NoItem
  /\ Len(savedApps) = 2 /\ currentApp # Null /\ isGenerating

\* C22: UPDATE_APP with (id, updates) merges updates into the entry whose id
\* matches and leaves every other entry, the length and the order as they
\* were; with no match the list is unchanged; the id of the target entry is
\* the same after the update as before it.
C22_UpdateMergesAndKeepsId ==
  [][settled'.op = "UPDATE_APP" =>
       /\ Len(savedApps') = Len(savedApps)
       /\ \A i \in 1..Len(savedApps) :
            IF Get(savedApps[i], "id") = settled'.appId
            THEN /\ \A f \in DOMAIN settled'.ret \ {"id"} :
                      Get(savedApps'[i], f) = settled'.ret[f]
                 /\ \A f \in DOMAIN savedApps[i] \ DOMAIN settled'.ret :
                      Get(savedApps'[i], f) = savedApps[i][f]
                 /\ Get(savedApps'[i], "id") = settled'.appId
            ELSE savedApps'[i] = savedApps[i]]_vars

\* C23: a metadata answer that parses as JSON but is not an object carrying
\* name, description and type does not abort the creation: generateApp
\* resolves and the artifact has defined name, description and type.
C23_OddMetadataStillCreates ==
  (/\ settled.op = "generateApp"
   /\ settled.meta \in MetaTexts
   /\ JSONparse(settled.meta).kind # "SyntaxError"
   /\ ~CarriesMetadata(settled.meta))
  => /\ settled.outcome = "resolved"
     /\ \A f \in {"name", "description", "type"} : Get(settled.ret, f) # Undefined

\* C24: a failure of the external call inside updateAppWithFollowUp or
\* generateApp reaches the caller as the error value the client produced, not
\* re-wrapped, and the call was not retried.
C24_ServiceErrorReachesCallerAsIs ==
  (/\ settled.outcome = "rejected"
   /\ settled.sent > 0
   /\ settled.meta = NoText)
  => /\ settled.err \in ServiceErrors
     /\ settled.sent <= (IF settled.op = "generateApp" THEN 2 ELSE 1)

\* C25: once DELETE_APP has removed the artifact with a given id, no later
\* navigation, preview, save or revise step puts an artifact with that id back
\* into savedApps or into durable storage; in particular a deleted artifact
\* that is still currentApp is not saved again when its preview is opened.
C25_DeletedStaysDeleted ==
  [][(/\ boot = "ready" /\ boot' = "ready"
      /\ currentApp # Null
      /\ currentApp.id \notin IdsOf(savedApps)
      /\ settled'.op # "generateApp")
     => /\ currentApp.id \notin IdsOf(savedApps')
        /\ currentApp.id \notin IdsOf(ParseSavedApps(localStorage'))]_vars

\* C26: after a successful updateAppWithFollowUp(id, ...) the content the
\* preview page selects for id (appData.code if present, else the cache entry)
\* is the revised text, and the next updateAppWithFollowUp on that id sends the
\* displayed text as the existing code.
C26_PreviewShowsWhatIsRevised ==
  [][\A id \in KnownIds :
       /\ (ReviseResolved' /\ settled'.appId = id /\ boot' = "ready")
            => AppContent(id)' = settled'.text
       /\ \A c \in CallIds :
            (/\ ~InFlight(c) /\ InFlight(c)'
             /\ calls'[c].op = "updateAppWithFollowUp"
             /\ calls'[c].appId = id
             /\ MapGet(generatedApps, id) # Undefined)
            => calls'[c].currentCode = AppContent(id)]_vars

\* C27: every artifact that generateApp added stays previewable after a
\* restart: once the list is reloaded, with the cache empty and currentApp
\* null, the preview page for its id finds the record and non-empty content.
C27_SavedArtifactsPreviewAfterRestart ==
  (boot = "ready" /\ generatedApps = EmptyMap /\ currentApp = Null)
  => \A i \in 1..Len(savedApps) :
       /\ PreviewDrawn(Get(savedApps[i], "id"))
       /\ PreviewDrawnFromCache(Get(savedApps[i], "id"))

\* C28: in every reachable state a non-null currentApp has an entry in the
\* content cache under its id; within a session cache entries are added or
\* overwritten, never removed.
C28_CurrentAppIsCached ==
  [][/\ currentApp' # Null => Get(currentApp', "id") \in DOMAIN generatedApps'
     /\ (boot = "ready" /\ boot' = "ready")
          => DOMAIN generatedApps \subseteq DOMAIN generatedApps']_vars

C28_Witness ==
  /\ ReviseResolved
  /\ currentApp # Null
  /\ settled.appId # currentApp.id
  /\ DOMAIN generatedApps = {settled.appId, currentApp.id}
  /\ generatedApps[currentApp.id] = currentApp.code

\* C29: DELETE_APP changes only savedApps and the persisted list; currentApp,
\* the content cache (the deleted id's entry included) and isGenerating are
\* unchanged, also when the deleted artifact is the current one or the target
\* of an in-flight revise, whose result is then still written to the cache
\* without re-adding the artifact to savedApps.
C29_DeleteTouchesOnlyTheList ==
  [][/\ (boot = "ready" /\ boot' = "ready" /\ Len(savedApps') < Len(savedApps))
          => /\ UNCHANGED <<currentApp, generatedApps, isGenerating, calls>>
             /\ SameList(ParseSavedApps(localStorage'), savedApps')
     /\ (ReviseResolved' /\ settled'.appId \notin IdsOf(savedApps))
          => /\ MapGet(generatedApps', settled'.appId) = settled'.text
             /\ UNCHANGED <<savedApps, localStorage>>]_vars

C29_Witness ==
  /\ ReviseResolved
  /\ settled.appId \notin IdsOf(savedApps)
  /\ Get(currentApp, "id") = settled.appId
  /\ generatedApps[settled.appId] = settled.text
  /\ currentApp.code # settled.text
  /\ ui.page = "my-apps"

\* C30: HomePage.handleCreateApp issues no generateApp call for an empty or
\* whitespace-only prompt; otherwise the loading modal is shown from the start
\* of the call and hidden once the call settles, and the router is sent to
\* /preview/<id> only after a successful call, with the id of the artifact
\* that call returned, and never after a failure.
C30_CreateHandlerGuardsAndNavigates ==
  [][/\ \A c \in CallIds :
          (~InFlight(c) /\ InFlight(c)' /\ calls'[c].op = "generateApp")
          => /\ Trim(calls'[c].prompt) # ""
             /\ ui'.showLoadingModal
     /\ (settled'.op = "generateApp" /\ settled'.outcome \in {"resolved", "rejected"})
          => ~ui'.showLoadingModal
     /\ (settled'.op = "generateApp" /\ <<ui'.page, ui'.appId>> # <<ui.page, ui.appId>>)
          => /\ settled'.outcome = "resolved"
             /\ ui'.page = "preview"
             /\ ui'.appId = settled'.ret.id
     /\ (settled'.op = "generateApp" /\ settled'.outcome = "resolved")
          => (ui'.page = "preview" /\ ui'.appId = settled'.ret.id)]_vars

C30_Witness ==
  /\ settled.op = "generateApp" /\ settled.outcome = "rejected"
  /\ settled.sent = 2
  /\ ui.page = "home" /\ ~ui.showLoadingModal /\ ~ui.cancelled
  /\ currentApp # Null

====
